---- MODULE Spec2Model ----
(***************************************************************************)
(* Correlated-noise generators of the pastas proof-of-concept notebooks.   *)
(*                                                                         *)
(* Four notebook cells build a correlated residual series from a base      *)
(* noise series with a first-order recursion:                              *)
(*   "AR1"  noisemodel.ipynb 96-108      a[i] = noise[i] + a[i-1]*alpha    *)
(*   "ARMA" unnamed/part_001 106-127     a[i] = noise[i] + noise[i-1]*beta *)
(*                                              + a[i-1]*alpha             *)
(*   "Corr" pastas_synthetic.ipynb 268-276                                 *)
(*          noise_corr[i] = exp(-1/alphatrue)*noise_corr[i-1] + noise[i]   *)
(*   "Irr"  noisemodel.ipynb 582-593                                       *)
(*          residuals[i] = exp(-delt[i-1]/alpha)*residuals[i-1] + noise[i] *)
(*                                                                         *)
(* Numbers are exact: a value is a finite sum of terms c * e^(-q) with     *)
(* rational c and rational q >= 0, kept in normal form.  By the            *)
(* Lindemann-Weierstrass theorem two normal forms denote the same real     *)
(* number exactly when they are equal, so exp is neither approximated nor  *)
(* confused with a rational number.  Floating-point rounding is not        *)
(* modelled.                                                               *)
(***************************************************************************)
EXTENDS Integers, Sequences, FiniteSets, TLC

\* ------------------------------------------------------------------------
\* Bounds of the model
\* ------------------------------------------------------------------------
MaxLen == 4

MaxGap == 2

RngMod == 3

\* ------------------------------------------------------------------------
\* Exact rational arithmetic
\* ------------------------------------------------------------------------
Abs(x) == IF x < 0 THEN -x ELSE x

RECURSIVE GCD(_, _)
GCD(x, y) == IF y = 0 THEN x ELSE GCD(y, x % y)

Rat(num, den) ==
    LET g == GCD(Abs(num), Abs(den))
        s == IF den < 0 THEN -1 ELSE 1
    IN  [n |-> (s * num) \div g, d |-> (s * den) \div g]

RAdd(p, q) == Rat(p.n * q.d + q.n * p.d, p.d * q.d)

RMul(p, q) == Rat(p.n * q.n, p.d * q.d)

RDiv(p, q) == Rat(p.n * q.d, p.d * q.n)

RZero == Rat(0, 1)

ROne == Rat(1, 1)

\* ------------------------------------------------------------------------
\* Values: finite sums of c * e^(-q), as sets of terms [e |-> q, c |-> c]
\* with pairwise distinct exponents and non-zero coefficients
\* ------------------------------------------------------------------------
RECURSIVE SumCoef(_)
SumCoef(S) ==
    IF S = {} THEN RZero
    ELSE LET t == CHOOSE x \in S : TRUE
         IN  RAdd(t[3], SumCoef(S \ {t}))

Coef(v, q) == IF \E t \in v : t.e = q THEN (CHOOSE t \in v : t.e = q).c ELSE RZero

VConst(q) == IF q = RZero THEN {} ELSE {[e |-> RZero, c |-> q]}

Zero == VConst(RZero)

Num(x) == VConst(Rat(x, 1))

VAdd(u, v) ==
    LET E == {t.e : t \in u \cup v}
    IN  {[e |-> q, c |-> RAdd(Coef(u, q), Coef(v, q))] :
             q \in {x \in E : RAdd(Coef(u, x), Coef(v, x)) # RZero}}

VMul(u, v) ==
    LET P == {<<s.e, t.e, RMul(s.c, t.c)>> : s \in u, t \in v}
        E == {RAdd(p[1], p[2]) : p \in P}
        C(q) == SumCoef({p \in P : RAdd(p[1], p[2]) = q})
    IN  {[e |-> q, c |-> C(q)] : q \in {x \in E : C(x) # RZero}}

\* np.exp(-x / y) for x > 0, y >= 0 where the division is a numpy division:
\* x / 0 is inf (with a RuntimeWarning) and exp(-inf) is 0.0
Exp(x, y) == IF y = RZero THEN Zero ELSE {[e |-> RDiv(x, y), c |-> ROne]}

\* u - v
VSub(u, v) == VAdd(u, VMul(Num(0 - 1), v))

\* ------------------------------------------------------------------------
\* Inputs of the cells
\* ------------------------------------------------------------------------
Generators == {"AR1", "ARMA", "Corr", "Irr"}

\* base noise draws (random_seed.normal(...) * scale, sigma_n * randn(...))
NoiseVals == {Num(0), Num(1)}

\* the literal assigned to alpha / alphatrue in the cell
AlphaVals == {RZero, Rat(1, 2), Rat(2, 1)}

\* the literal assigned to beta in the ARMA cell
BetaVals == {RZero, ROne}

\* constant level of the head series without recharge (dtrue * np.ones)
dtrue == 20

\* seeds handed to np.random.seed
SeedAR == 1234

SeedIrr == 1

NoRun == [run |-> FALSE]

RECURSIVE SeqsOf(_, _)
SeqsOf(S, len) ==
    IF len = 0 THEN {<<>>}
    ELSE {Append(s, x) : s \in SeqsOf(S, len - 1), x \in S}

\* strictly increasing day numbers starting at day 0, consecutive
\* observations at most MaxGap days apart (ho.index, head.index)
RECURSIVE Indexes(_)
Indexes(len) ==
    IF len = 1 THEN {<<0>>}
    ELSE {Append(s, s[Len(s)] + g) : s \in Indexes(len - 1), g \in 1..MaxGap}

Daily(len) == [k \in 1..len |-> k - 1]

VARIABLES
    gen,        \* the notebook (generator cell) this kernel runs
    index,      \* time index of the head series, in days
    noise,      \* base noise sequence
    head,       \* head series without noise
    alpha,      \* alpha / alphatrue
    beta,       \* beta (ARMA cell only)
    delt,       \* time steps between observations (Irr cell only)
    residuals,  \* the output array: a, noise_corr or residuals
    i,          \* loop variable of the cell (0-based, as in the source)
    pc,         \* "idle", "loop", "done" or "error"
    err,        \* exception that ended the cell, or "none"
    rng,        \* state of numpy's global random generator
    head_noise, \* head_noise, head_noise_corr or hsynthetic
    prev        \* inputs and output of an earlier completed run of the cell

VARIABLES
    fam,        \* response-function family whose check cells are running
    params,     \* p, the parameter vector of the family
    tmax,       \* fam.get_tmax(p)
    taxis,      \* t, the time axis np.arange(0, tmax)
    step,       \* analytic step response; block response in the head cell
    stepnum,    \* numerical step response
    stepnum_brug, \* numerical step response of the Kraijenhoff cell
    normalized, \* whether the rescaling statement of the cell has run
    plotted,    \* the two curves handed to the comparison plot
    rain,       \* rainfall series
    hwork,      \* h, the work buffer of the head generation cell
    head_test1, \* head_noise of the Test 1 cell (white noise added to head)
    stamps,     \* timestamps read from test_index.csv, in ticks
    built       \* the time indices built by the index cells

vars == <<gen, index, noise, head, alpha, beta, delt, residuals, i, pc, err,
          rng, head_noise, prev, fam, params, tmax, taxis, step, stepnum,
          stepnum_brug, normalized, plotted, rain, hwork, head_test1, stamps, built>>

\* variables of the response-function check, of the head generation cell and
\* of the index cells
stepVars == <<fam, params, tmax, taxis, stepnum, stepnum_brug, normalized,
              plotted>>

headVars == <<rain, hwork>>

idxVars == <<stamps, built>>

\* variables used by the noise generator cells only
genVars == <<gen, index, noise, alpha, beta, delt, residuals, rng, head_noise,
             prev, head_test1>>

\* names the noise generator notebooks never bind
notGen == <<step, stepVars, headVars, idxVars>>

\* a name that is not bound in the running notebook
Unbound == <<>>

UnboundStep ==
    /\ fam = Unbound
    /\ params = Unbound
    /\ tmax = Unbound
    /\ taxis = Unbound
    /\ stepnum = Unbound
    /\ stepnum_brug = Unbound
    /\ normalized = Unbound
    /\ plotted = Unbound

UnboundHead ==
    /\ rain = Unbound
    /\ hwork = Unbound

UnboundIdx ==
    /\ stamps = Unbound
    /\ built = Unbound

UnboundGen ==
    /\ gen = Unbound
    /\ index = Unbound
    /\ noise = Unbound
    /\ alpha = Unbound
    /\ beta = Unbound
    /\ delt = Unbound
    /\ residuals = Unbound
    /\ rng = Unbound
    /\ head_noise = Unbound
    /\ prev = Unbound
    /\ head_test1 = Unbound

data == <<gen, index, noise, head>>

\* 0-based element of a numpy array
At(s, k) == s[k + 1]

InRange(s, k) == k >= 0 /\ k < Len(s)

\* delt = (ho.index[1:] - ho.index[:-1]).values / pd.Timedelta("1d")
Delt(idx) == [k \in 1..(Len(idx) - 1) |-> idx[k + 1] - idx[k]]

\* faulty variant: an array one element short
ZerosShort(s) == [k \in 1..(Len(s) - 1) |-> Zero]

\* an array of zeros shaped like s
ZerosLike(s) == [k \in 1..Len(s) |-> Zero]

\* the statement between the allocation and the loop: noise_corr[0] = noise[0]
\* and residuals[0] = noise[0]; the AR1 and ARMA cells have no such statement
SeedFirst(g, arr, nz) ==
    IF g \in {"Corr", "Irr"} THEN [arr EXCEPT ![1] = At(nz, 0)] ELSE arr

\* the array a cell allocates for its output: np.zeros_like(head[0]) in the
\* AR1 and ARMA cells, np.zeros(len(noise)) and np.zeros_like(noise) otherwise
Alloc(g, h, nz) == IF g \in {"AR1", "ARMA"} THEN ZerosLike(h) ELSE ZerosLike(nz)

\* faulty variant: the range stops one index early
LoopEndShort(g, arr, nz, idx) ==
    (CASE g = "Corr" -> Len(arr)
       [] g = "Irr" -> Len(idx)
       [] OTHER -> Len(nz)) - 1

\* end of the loop range: noise.size, len(noise_corr) or len(ho)
LoopEnd(g, arr, nz, idx) ==
    CASE g = "Corr" -> Len(arr)
      [] g = "Irr" -> Len(idx)
      [] OTHER -> Len(nz)

\* np.random.seed(s): the state of the global generator after seeding
Seeded(s) == s % RngMod

\* the global generator after the statements of the cell that touch it
RngAfter(g, st, len) ==
    CASE g \in {"AR1", "ARMA"} -> Seeded(SeedAR)
      [] g = "Irr" -> (Seeded(SeedIrr) + len) % RngMod
      [] OTHER -> st

\* faulty variant: the step that follows observation k
DeltIdxNext(k) == k

\* position in delt read while computing element k: delt[i - 1]
DeltIdx(k) == k - 1

\* exception raised by evaluating the right-hand side at index k, or "none":
\* -1 / alphatrue is a division of Python ints, delt[...] a numpy element
Raises(g, al, dl, k) ==
    CASE g = "Corr" /\ al = RZero -> "ZeroDivisionError"
      [] g = "Irr" /\ ~InRange(dl, DeltIdx(k)) -> "IndexError"
      [] OTHER -> "none"

\* faulty variant: a fresh draw from the global generator instead of noise[i]
BaseDrawGlobal(nz, k) == Num(rng)

\* the base noise draw used at index k: noise[i]
BaseDraw(nz, k) == At(nz, k)

\* faulty variant: the time-step recursion with the quotient inverted
DecayInverted(g, al, dl, k) ==
    CASE g = "Corr" -> Exp(ROne, al)
      [] g = "Irr" -> Exp(al, Rat(At(dl, DeltIdx(k)), 1))
      [] OTHER -> VConst(al)

\* factor that multiplies the previous output: alpha, np.exp(-1 / alphatrue)
\* or np.exp(-delt[i - 1] / alpha)
Decay(g, al, dl, k) ==
    CASE g = "Corr" -> Exp(ROne, al)
      [] g = "Irr" -> Exp(Rat(At(dl, DeltIdx(k)), 1), al)
      [] OTHER -> VConst(al)

\* faulty variant: the moving-average term taken from the previous output
MATermPrevOut(g, nz, arr, be, k) ==
    IF g = "ARMA" THEN VMul(At(arr, k - 1), VConst(be)) ELSE Zero

\* faulty variant: beta added to the previous draw instead of multiplying it
MATermPlus(g, nz, arr, be, k) ==
    IF g = "ARMA" THEN VAdd(At(nz, k - 1), VConst(be)) ELSE Zero

\* moving-average term of the ARMA cell: noise[i - 1] * beta
MATerm(g, nz, arr, be, k) ==
    IF g = "ARMA" THEN VMul(At(nz, k - 1), VConst(be)) ELSE Zero

\* faulty variant: the previous output subtracted instead of added
BodySubtracts(g, arr, nz, dl, al, be, k) ==
    VSub(VAdd(BaseDraw(nz, k), MATerm(g, nz, arr, be, k)),
         VMul(At(arr, k - 1), Decay(g, al, dl, k)))

\* faulty variant: the recursion fed with the previous draw, not the previous output
BodyPrevDraw(g, arr, nz, dl, al, be, k) ==
    VAdd(VAdd(BaseDraw(nz, k), MATerm(g, nz, arr, be, k)),
         VMul(At(nz, k - 1), Decay(g, al, dl, k)))

\* right-hand side of the assignment in the loop body
Body(g, arr, nz, dl, al, be, k) ==
    VAdd(VAdd(BaseDraw(nz, k), MATerm(g, nz, arr, be, k)),
         VMul(At(arr, k - 1), Decay(g, al, dl, k)))

\* the whole loop of a cell as a function of its inputs
RECURSIVE LoopFrom(_, _, _, _, _, _, _)
LoopFrom(g, arr, nz, dl, al, be, k) ==
    IF k >= Len(nz) THEN arr
    ELSE LoopFrom(g, [arr EXCEPT ![k + 1] = Body(g, arr, nz, dl, al, be, k)],
                  nz, dl, al, be, k + 1)

\* the output array of generator g for inputs that raise no exception
Generate(g, nz, dl, al, be) ==
    LoopFrom(g, SeedFirst(g, ZerosLike(nz), nz), nz, dl, al, be, 1)

\* head[0] + a: element-wise sum of two series
SeriesAdd(h, arr) == [k \in 1..Len(h) |-> VAdd(h[k], arr[k])]

\* faulty variant: the sum accumulated into the head series (head[0] += a)
HeadAddedInPlace(hd, arr) == SeriesAdd(hd, arr)

\* the head series after head[0] + a: the sum is a new Series, head keeps
\* its values
HeadAfterAdd(hd, arr) == hd

\* the base noise after a store into the output array: the output array is a
\* fresh allocation that shares no memory with noise
NoiseAfterStore(nz, arr) == nz

Init ==
    /\ gen \in Generators
    /\ \E len \in 1..MaxLen :
         /\ noise \in SeqsOf(NoiseVals, len)
         /\ index \in (IF gen = "Irr" THEN Indexes(len) ELSE {Daily(len)})
         /\ head = [k \in 1..len |-> Num(dtrue)]
    /\ alpha = RZero
    /\ beta = RZero
    /\ delt = <<>>
    /\ residuals = <<>>
    /\ i = 0
    /\ pc = "idle"
    /\ err = "none"
    /\ rng \in 0..(RngMod - 1)
    /\ head_noise = <<>>
    /\ prev = NoRun
    /\ head_test1 = Unbound
    /\ step = Unbound
    /\ UnboundStep
    /\ UnboundHead
    /\ UnboundIdx

\* The statements of the cell before the loop
RunCell ==
    /\ pc \in {"idle", "done", "error"}
    /\ gen = "Corr" => head_test1 # Unbound
    /\ \E al \in AlphaVals, be \in (IF gen = "ARMA" THEN BetaVals ELSE {RZero}) :
         /\ alpha' = al
         /\ beta' = be
    /\ delt' = IF gen = "Irr" THEN Delt(index) ELSE delt
    /\ rng' = RngAfter(gen, rng, Len(noise))
    /\ residuals' = SeedFirst(gen, Alloc(gen, head, noise), noise)
    /\ i' = 1
    /\ pc' = "loop"
    /\ err' = "none"
    /\ prev' \in {prev} \cup
                 (IF pc = "done"
                  THEN {[run |-> TRUE, alpha |-> alpha, beta |-> beta,
                         rng |-> rng, out |-> residuals]}
                  ELSE {})
    /\ UNCHANGED <<data, head_noise, head_test1>>
    /\ UNCHANGED notGen

\* One iteration of  for i in range(1, n)
Step ==
    /\ pc = "loop"
    /\ i < LoopEnd(gen, residuals, noise, index)
    /\ Raises(gen, alpha, delt, i) = "none"
    /\ InRange(residuals, i)
    /\ residuals' = [residuals EXCEPT
                       ![i + 1] = Body(gen, residuals, noise, delt, alpha, beta, i)]
    /\ i' = i + 1
    /\ noise' = NoiseAfterStore(noise, residuals')
    /\ UNCHANGED <<gen, index, head, alpha, beta, delt, pc, err, rng, head_noise,
                   prev, head_test1>>
    /\ UNCHANGED notGen

\* An iteration whose right-hand side or whose store raises: the exception
\* leaves the loop and ends the cell
StepRaises ==
    /\ pc = "loop"
    /\ i < LoopEnd(gen, residuals, noise, index)
    /\ (Raises(gen, alpha, delt, i) # "none" \/ ~InRange(residuals, i))
    /\ err' = IF Raises(gen, alpha, delt, i) # "none"
              THEN Raises(gen, alpha, delt, i)
              ELSE "IndexError"
    /\ pc' = "error"
    /\ UNCHANGED <<data, alpha, beta, delt, residuals, i, rng, head_noise, prev,
                   head_test1>>
    /\ UNCHANGED notGen

\* The statement after the loop: head_noise = head[0] + a
AddNoise ==
    /\ pc = "loop"
    /\ i >= LoopEnd(gen, residuals, noise, index)
    /\ IF Len(head) = Len(residuals)
       THEN /\ head_noise' = SeriesAdd(head, residuals)
            /\ pc' = "done"
            /\ err' = "none"
       ELSE /\ head_noise' = head_noise
            /\ pc' = "error"
            /\ err' = "ValueError"
    /\ head' = HeadAfterAdd(head, residuals)
    /\ UNCHANGED <<gen, index, noise, alpha, beta, delt, residuals, i, rng, prev,
                   head_test1>>
    /\ UNCHANGED notGen

\* The Test 1 cell of the synthetic-data notebook: head_noise = head[0] + noise
NoiseCell ==
    /\ gen = "Corr"
    /\ pc = "idle"
    /\ head_test1 = Unbound
    /\ head_test1' = SeriesAdd(head, noise)
    /\ head' = HeadAfterAdd(head, noise)
    /\ UNCHANGED <<gen, index, noise, alpha, beta, delt, residuals, i, pc, err,
                   rng, head_noise, prev>>
    /\ UNCHANGED notGen

\* Restart of the notebook kernel: every name is gone, the global random
\* generator is seeded from the operating system
KernelRestart ==
    /\ pc \in {"done", "error"}
    /\ rng' \in 0..(RngMod - 1)
    /\ alpha' = RZero
    /\ beta' = RZero
    /\ delt' = <<>>
    /\ residuals' = <<>>
    /\ head_noise' = <<>>
    /\ head_test1' = Unbound
    /\ i' = 0
    /\ pc' = "idle"
    /\ err' = "none"
    /\ prev' \in {prev} \cup
                 (IF pc = "done"
                  THEN {[run |-> TRUE, alpha |-> alpha, beta |-> beta,
                         rng |-> rng, out |-> residuals]}
                  ELSE {})
    /\ UNCHANGED data
    /\ UNCHANGED notGen

Next == RunCell \/ Step \/ StepRaises \/ AddNoise \/ NoiseCell \/ KernelRestart

Spec == Init /\ [][Next]_vars

TypeOK ==
    /\ gen \in Generators
    /\ pc \in {"idle", "loop", "done", "error"}
    /\ err \in {"none", "ZeroDivisionError", "IndexError", "ValueError"}
    /\ i \in 0..Len(noise)
    /\ rng \in 0..(RngMod - 1)

\* ------------------------------------------------------------------------
\* Check of the response functions: numerical integration of the impulse
\* response against the analytic step response (noisemodel.ipynb 1007-1487)
\* ------------------------------------------------------------------------
\* largest tmax in days
MaxT == 3

\* the families in the order of their cells
Families == <<"Gamma", "Exponential", "Hantush", "Polder", "FourParam",
              "DoubleExponential", "Kraijenhoff">>

\* families whose cell carries the comment
\* "impulse response implemented for A=1 only"
MarkedUnitGain == {"FourParam", "DoubleExponential"}

\* families whose cell divides stepnum by the integral over [0, inf)
Rescaled == {"FourParam"}

\* the literals assigned to A and a; the FourParam cell sets A = 1
ParamSets(f) ==
    {[A |-> x, a |-> y] : x \in (IF f = "FourParam" THEN {1} ELSE {1, 5}),
                          y \in {1, 2}}

\* values fam.get_tmax(p) can return, in steps of half a day
TmaxVals == {Rat(k, 2) : k \in 1..(2 * MaxT)}

Ceil(q) == (q.n + q.d - 1) \div q.d

\* np.arange(0, tmax)
Arange(tm) == [k \in 1..Ceil(tm) |-> k - 1]

\* Total mass of the impulse response.  The kernels belong to the modelling
\* library; every family is represented by an exponential kernel with the
\* family's gain and time scale (exact for Exponential).  The FourParam kernel
\* is not normalised: its mass differs from its gain.
Mass(f, pp) == IF f = "FourParam" THEN Rat(2 * pp.a, 1) ELSE Rat(pp.A, 1)

\* integral of fam.impulse over [0, x]
Prim(f, pp, x) ==
    VMul(VConst(Mass(f, pp)), VSub(Num(1), Exp(Rat(x, 1), Rat(pp.a, 1))))

\* quad(fam.impulse, lo, hi, args=(p))[0]
Quad(f, pp, lo, hi) == VSub(Prim(f, pp, hi), Prim(f, pp, lo))

\* quad(fam.impulse, 0, np.inf, args=p)[0]
QuadInf(f, pp) == Mass(f, pp)

\* fam.step(p): the analytic step response at the times t[1:]
StepAnalytic(f, pp, tt) ==
    [k \in 1..(Len(tt) - 1) |->
        VMul(Num(pp.A), VSub(Num(1), Exp(Rat(tt[k + 1], 1), Rat(pp.a, 1))))]

\* faulty variant: each window starts at the previous time point
WindowIncrement(tt, k) == <<At(tt, k - 1), At(tt, k)>>

\* faulty variant: the upper limit taken from the previous time
WindowPrev(tt, k) == <<0, At(tt, k - 1)>>

\* integration window of entry k: quad(fam.impulse, 0, t[i], ...)
Window(tt, k) == <<0, At(tt, k)>>

\* stepnum / quad(...)[0]
DivideAll(arr, m) == [k \in 1..Len(arr) |-> VMul(arr[k], VConst(RDiv(ROne, m)))]

\* faulty variant: the analytic curve drawn against the whole time axis
AnalyticAxisWhole(tt) == tt

\* time axis of the analytic curve: t[1:]
AnalyticAxis(tt) == IF tt = <<>> THEN <<>> ELSE Tail(tt)

InitStep ==
    /\ fam = 0
    /\ params = Unbound
    /\ tmax = Unbound
    /\ taxis = Unbound
    /\ step = Unbound
    /\ stepnum = Unbound
    /\ stepnum_brug = Unbound
    /\ normalized = FALSE
    /\ plotted = Unbound
    /\ i = 0
    /\ pc = "start"
    /\ err = "none"
    /\ head = Unbound
    /\ UnboundGen
    /\ UnboundHead
    /\ UnboundIdx

\* the name a compute cell gives its numerical step response
WrittenName(f) == IF f = "Kraijenhoff" THEN "stepnum_brug" ELSE "stepnum"

\* faulty variant: every comparison cell plots stepnum
PlottedNameShared(f) == "stepnum"

\* the name a comparison cell plots as the numerical step response
PlottedName(f) == IF f = "Kraijenhoff" THEN "stepnum_brug" ELSE "stepnum"

\* the array a name is bound to
Lookup(name) == IF name = "stepnum_brug" THEN stepnum_brug ELSE stepnum

\* the names after binding name to arr
Bind(name, arr) ==
    IF name = "stepnum_brug"
    THEN stepnum_brug' = arr /\ stepnum' = stepnum
    ELSE stepnum' = arr /\ stepnum_brug' = stepnum_brug

\* the numerical step response of the family at hand
Numerical ==
    IF fam \in 1..Len(Families) THEN Lookup(WrittenName(Families[fam]))
    ELSE Unbound

\* The compute cell of the next family, up to the loop
ComputeCell ==
    /\ pc \in {"start", "plotted"}
    /\ fam < Len(Families)
    /\ fam' = fam + 1
    /\ \E pp \in ParamSets(Families[fam + 1]), tm \in TmaxVals :
         /\ params' = pp
         /\ tmax' = tm
         /\ taxis' = Arange(tm)
         /\ step' = StepAnalytic(Families[fam + 1], pp, Arange(tm))
         /\ Bind(WrittenName(Families[fam + 1]), ZerosLike(Arange(tm)))
    /\ normalized' = FALSE
    /\ i' = 1
    /\ pc' = "quad"
    /\ UNCHANGED <<plotted, err, head, genVars, headVars, idxVars>>

\* the error estimates quad can report with its result
ErrEstimates == {"small", "large"}

\* quad(...): the pair (integral, estimate of the absolute error)
QuadResult(f, pp, lo, hi, est) == <<Quad(f, pp, lo, hi), est>>

\* faulty variant: a result with a large error estimate is dropped
StoredIfAccurate(res) == IF res[2] = "large" THEN Zero ELSE res[1]

\* quad(...)[0]: the integral is kept, the estimate is not looked at
Stored(res) == res[1]

\* One iteration of  for i in range(1, len(t))
QuadStep ==
    /\ pc = "quad"
    /\ i < Len(taxis)
    /\ \E est \in ErrEstimates :
         Bind(WrittenName(Families[fam]),
              [Lookup(WrittenName(Families[fam])) EXCEPT
                 ![i + 1] = Stored(QuadResult(Families[fam], params,
                                              Window(taxis, i)[1],
                                              Window(taxis, i)[2], est))])
    /\ i' = i + 1
    /\ UNCHANGED <<fam, params, tmax, taxis, step, normalized, plotted, pc, err,
                   head, genVars, headVars, idxVars>>

\* End of the compute cell: the rescaling statement where the cell has one
FinishCell ==
    /\ pc = "quad"
    /\ i >= Len(taxis)
    /\ IF Families[fam] \in Rescaled
       THEN /\ stepnum' = DivideAll(stepnum, QuadInf(Families[fam], params))
            /\ normalized' = TRUE
       ELSE UNCHANGED <<stepnum, normalized>>
    /\ stepnum_brug' = stepnum_brug
    /\ pc' = "computed"
    /\ UNCHANGED <<fam, params, tmax, taxis, step, plotted, i, err, head,
                   genVars, headVars, idxVars>>

\* The comparison cell: plt.plot(t[1:], step); plt.plot(t, stepnum)
PlotCell ==
    /\ pc = "computed"
    /\ plotted' = [fam |-> fam,
                   xa |-> AnalyticAxis(taxis), ya |-> step,
                   xn |-> taxis, yn |-> Lookup(PlottedName(Families[fam]))]
    /\ IF /\ Len(AnalyticAxis(taxis)) = Len(step)
          /\ Len(taxis) = Len(Lookup(PlottedName(Families[fam])))
       THEN err' = "none"
       ELSE err' = "ValueError"
    /\ pc' = "plotted"
    /\ UNCHANGED <<fam, params, tmax, taxis, step, stepnum, stepnum_brug,
                   normalized, i, head,
                   genVars, headVars, idxVars>>

NextStep == ComputeCell \/ QuadStep \/ FinishCell \/ PlotCell

SpecStep == InitStep /\ [][NextStep]_vars

\* ------------------------------------------------------------------------
\* Time indices (unnamed/part_000 50-85, noisemodel.ipynb 191-196)
\*
\* Measurement timestamps are read from a csv file; here they are counted in
\* ticks, DayTicks ticks to the day.  Built indices are counted in whole
\* days.
\* ------------------------------------------------------------------------
MaxStamps == 3

MaxTick == 3

DayTicks == 2

n_years == 10

DaysPerYear == 365

\* the timestamp columns test_index.csv can hold
StampSeqs == UNION {SeqsOf(0..MaxTick, len) : len \in 0..MaxStamps}

\* .ceil("D") of one timestamp
CeilD(tk) == (tk + DayTicks - 1) \div DayTicks

\* .round("D") of one timestamp: to the nearest day, halves to the even day
RoundD(tk) ==
    LET q == tk \div DayTicks
        r == tk % DayTicks
    IN  IF 2 * r < DayTicks THEN q
        ELSE IF 2 * r > DayTicks THEN q + 1
        ELSE IF q % 2 = 0 THEN q ELSE q + 1

RECURSIVE Unique(_)

\* faulty variant: every entry kept
UniqueKeepsAll(s) == s

\* Index.unique(): the first occurrence of every value, in order of appearance
Unique(s) ==
    IF s = <<>> THEN <<>>
    ELSE LET r == Unique(SubSeq(s, 1, Len(s) - 1))
             x == s[Len(s)]
         IN  IF \E k \in 1..Len(r) : r[k] = x THEN r ELSE Append(r, x)

\* Index.drop_duplicates(): keep = "first"
DropDuplicates(s) == Unique(s)

\* a slice bound of .iloc, counted from the end when negative
SliceBound(n, k) ==
    IF k < 0 THEN (IF n + k < 0 THEN 0 ELSE n + k)
    ELSE (IF k > n THEN n ELSE k)

\* s.iloc[lo:hi]
ILoc(s, lo, hi) == SubSeq(s, SliceBound(Len(s), lo) + 1, SliceBound(Len(s), hi))

\* .asfreq(f) of a daily series: every f-th day from its first day on, up to
\* its last day
Asfreq(s, f) ==
    IF s = <<>> THEN <<>>
    ELSE [k \in 1..((s[Len(s)] - s[1]) \div f + 1) |-> s[1] + (k - 1) * f]

\* index = pd.to_datetime(np.arange(0, n_years * 365, 1), unit="D", ...)
DailyIndex == Daily(n_years * DaysPerYear)

\* STS_SIN1: three frequencies
V1(v) ==
    Asfreq(ILoc(v, 0, 0 - 7 * DaysPerYear), 30)
        \o Asfreq(ILoc(v, 0 - 7 * DaysPerYear, 0 - 4 * DaysPerYear), 14)
        \o ILoc(v, 0 - 4 * DaysPerYear, Len(v))

\* STS_SIN2: three frequencies and a data gap
V2(v) ==
    Asfreq(ILoc(v, 0, 0 - 7 * DaysPerYear), 30)
        \o Asfreq(ILoc(v, 0 - 7 * DaysPerYear, 0 - 4 * DaysPerYear), 14)
        \o ILoc(v, 0 - 3 * DaysPerYear, Len(v))

\* index_test = read_csv(...).index.ceil("D").unique()
IndexTest(st) == Unique([k \in 1..Len(st) |-> CeilD(st[k])])

\* index = read_csv(...).index.round("D").drop_duplicates()
IndexRounded(st) == DropDuplicates([k \in 1..Len(st) |-> RoundD(st[k])])

\* a missing value
NaN == "nan"

\* the value the sine series v, the correlated series n and the noisy head
\* hold on day dd; the values themselves play no part in the index cells
SineAt(dd) == <<"sin", dd>>

ExpAt(dd) == <<"exp", dd>>

HeadAt(dd) == <<"head", dd>>

\* the value series s holds on day dd, NaN when dd is not in its index
ValueOn(s, dd) ==
    IF dd + 1 \in 1..Len(s) /\ s[dd + 1][1] = dd THEN s[dd + 1][2]
    ELSE IF \E k \in 1..Len(s) : s[k][1] = dd
         THEN s[CHOOSE k \in 1..Len(s) : s[k][1] = dd][2]
         ELSE NaN

\* s.reindex(idx): one row for every entry of idx
Reindex(s, idx) == [k \in 1..Len(idx) |-> <<idx[k], ValueOn(s, idx[k])>>]

\* faulty variant: nothing dropped
DropnaKeepsAll(s) == s

\* s.dropna(): the rows that hold a value
Dropna(s) ==
    LET Holds(row) == row[2] # NaN
    IN  SelectSeq(s, Holds)

\* v1.index and v2.index
V1Index == V1(DailyIndex)

V2Index == V2(DailyIndex)

\* v = pd.Series(data=data, index=index, name="STS_SIN")
SineDaily ==
    [k \in 1..Len(DailyIndex) |-> <<DailyIndex[k], SineAt(DailyIndex[k])>>]

\* n = pd.Series(data=n, index=index, name="STS_EXP")
ExpDaily ==
    [k \in 1..Len(DailyIndex) |-> <<DailyIndex[k], ExpAt(DailyIndex[k])>>]

\* n1 = n.reindex(v1.index).dropna() and n2 = n.reindex(v2.index).dropna()
N1 == Dropna(Reindex(ExpDaily, V1Index))

N2 == Dropna(Reindex(ExpDaily, V2Index))

\* head_noise: one row (day, value) for each of its len days
HeadDaily(len) == [k \in 1..len |-> <<Daily(len)[k], HeadAt(Daily(len)[k])>>]

\* names no index cell binds
notIdx == <<i, pc, err, head, step, genVars, stepVars, headVars>>

InitIndex ==
    /\ stamps \in StampSeqs
    /\ built = Unbound
    /\ i = 0
    /\ pc = "start"
    /\ err = "none"
    /\ head = Unbound
    /\ step = Unbound
    /\ UnboundGen
    /\ UnboundStep
    /\ UnboundHead

\* The series cell of the autocorrelation notebook (unnamed/part_000 50-85)
SeriesCell ==
    /\ built = Unbound
    /\ built' = [index_test |-> IndexTest(stamps),
                 v |-> DailyIndex,
                 v1 |-> V1Index,
                 v2 |-> V2Index,
                 v3 |-> Dropna(Reindex(SineDaily, IndexTest(stamps))),
                 n1 |-> N1,
                 n2 |-> N2,
                 n3 |-> Dropna(Reindex(ExpDaily, IndexTest(stamps)))]
    /\ UNCHANGED stamps
    /\ UNCHANGED notIdx

\* The irregular-index cell of the noise-model notebook (191-196)
RoundCell ==
    /\ built = Unbound
    /\ \E len \in 1..MaxLen :
         built' = [index |-> IndexRounded(stamps),
                   head_noise |-> HeadDaily(len),
                   head_irregular |-> Reindex(HeadDaily(len),
                                              IndexRounded(stamps))]
    /\ UNCHANGED stamps
    /\ UNCHANGED notIdx

NextIndex == SeriesCell \/ RoundCell

SpecIndex == InitIndex /\ [][NextIndex]_vars

\* ------------------------------------------------------------------------
\* Head generation by superposition (pastas_synthetic.ipynb 114-123,
\* noisemodel.ipynb 64-72, unnamed/part_001 73-80)
\*
\* Rainfall and the block response are whole numbers here; days are counted
\* from 0 as the loop counts them.
\* ------------------------------------------------------------------------
MaxRain == 3

MaxStepLen == 3

RainVals == {0, 1, 2}

BlockVals == {1, 2}

\* the rainfall series read from the csv file
RainSeqs == UNION {SeqsOf(RainVals, len) : len \in 0..MaxRain}

\* the block responses gamma_block(...)[1:] can return
BlockSeqs == UNION {SeqsOf(BlockVals, len) : len \in 0..MaxStepLen}

\* faulty variant: a buffer as long as the rainfall series
BufferLenRainOnly(n, w) == n

\* length of the work buffer: len(rain) + lenstep
BufferLen(n, w) == n + w

\* dtrue * np.ones(n)
Ones(n) == [k \in 1..n |-> dtrue]

\* faulty variant: the slice starts one day late
SliceStartNext(k) == k + 1

\* first position of the slice h[i : i + lenstep]
SliceStart(k) == k

\* number of elements of h[lo : lo + w]
SliceLen(h, lo, w) ==
    SliceBound(Len(h), lo + w) - SliceBound(Len(h), lo)

\* h[lo : lo + lenstep] += r * step
AddSlice(h, lo, r, st) ==
    [k \in 1..Len(h) |->
        IF k - 1 >= lo /\ k - 1 < lo + Len(st)
        THEN h[k] + r * st[k - lo]
        ELSE h[k]]

\* pd.DataFrame(index=rain.index, data=h[: len(rain)]): one row per rain day
Frame(h, n) == [k \in 1..SliceBound(Len(h), n) |-> <<k - 1, h[k]>>]

\* head[lo:hi] by label: the rows of the days lo..hi
Trim(rows, lo, hi) ==
    LET Keep(row) == row[1] >= lo /\ row[1] <= hi
    IN  SelectSeq(rows, Keep)

\* names the head generation cell does not bind
notHead == <<genVars, stepVars, idxVars>>

InitHead ==
    /\ rain \in RainSeqs
    /\ step \in BlockSeqs
    /\ hwork = Unbound
    /\ head = Unbound
    /\ i = 0
    /\ pc = "start"
    /\ err = "none"
    /\ UnboundGen
    /\ UnboundStep
    /\ UnboundIdx

\* The head generation cell up to its loop
HeadCell ==
    /\ pc = "start"
    /\ hwork' = Ones(BufferLen(Len(rain), Len(step)))
    /\ i' = 0
    /\ pc' = "loop"
    /\ UNCHANGED <<rain, step, head, err>>
    /\ UNCHANGED notHead

\* One iteration of "for i in range(len(rain))"; numpy raises when the slice
\* and rain[i] * step differ in length
Superpose ==
    /\ pc = "loop"
    /\ i < Len(rain)
    /\ IF SliceLen(hwork, SliceStart(i), Len(step)) = Len(step)
       THEN /\ hwork' = AddSlice(hwork, SliceStart(i), At(rain, i), step)
            /\ i' = i + 1
            /\ UNCHANGED <<pc, err>>
       ELSE /\ pc' = "error"
            /\ err' = "ValueError"
            /\ UNCHANGED <<hwork, i>>
    /\ UNCHANGED <<rain, step, head>>
    /\ UNCHANGED notHead

\* After the loop: the frame on rain's index
MakeHead ==
    /\ pc = "loop"
    /\ i >= Len(rain)
    /\ head' = Frame(hwork, Len(rain))
    /\ pc' = "frame"
    /\ UNCHANGED <<rain, step, hwork, i, err>>
    /\ UNCHANGED notHead

\* Last statement of the cell: the frame cut to the years that are kept
TrimYears ==
    /\ pc = "frame"
    /\ \E lo \in 0..Len(rain), hi \in 0..Len(rain) :
        /\ lo <= hi
        /\ head' = Trim(head, lo, hi)
    /\ pc' = "done"
    /\ UNCHANGED <<rain, step, hwork, i, err>>
    /\ UNCHANGED notHead

NextHead == HeadCell \/ Superpose \/ MakeHead \/ TrimYears

SpecHead == InitHead /\ [][NextHead]_vars

\* ------------------------------------------------------------------------
\* Gamma step and block response (pastas_synthetic.ipynb 57-71, 87-92, 114)
\*
\* gammainc(n, x) is exact here for the whole numbers n:
\* 1 - e^(-x) * (1 + x + ... + x^(n-1)/(n-1)!).  The value of
\* gammaincinv(n, cutoff) is an input, field q of the parameters.
\* ------------------------------------------------------------------------
GammaParamSets ==
    {[A |-> x, n |-> y, a |-> z, q |-> Rat(k, 2)] :
        x \in {1, 5}, y \in {1, 2}, z \in {1, 2}, k \in 1..(2 * MaxT)}

\* x^k / k!
RECURSIVE PowFact(_, _)
PowFact(x, k) ==
    IF k = 0 THEN ROne ELSE RMul(PowFact(x, k - 1), RDiv(x, Rat(k, 1)))

\* 1 + x + ... + x^(n-1)/(n-1)!
RECURSIVE ExpSeries(_, _)
ExpSeries(n, x) ==
    IF n = 0 THEN RZero ELSE RAdd(ExpSeries(n - 1, x), PowFact(x, n - 1))

\* scipy.special.gammainc(n, x), the regularized lower incomplete gamma function
GammaInc(n, x) == VSub(Num(1), VMul(VConst(ExpSeries(n, x)), Exp(x, ROne)))

\* gamma_tmax(A, n, a, cutoff): gammaincinv(n, cutoff) * a
GammaTmax(pp) == RMul(pp.q, Rat(pp.a, 1))

\* gamma_step(A, n, a, cutoff)
GammaStep(pp) ==
    LET tt == Arange(GammaTmax(pp))
    IN  [k \in 1..Len(tt) |->
            VMul(Num(pp.A), GammaInc(pp.n, RDiv(Rat(tt[k], 1), Rat(pp.a, 1))))]

\* faulty variant: every element minus the first one
DiffsFromFirst(s) == [k \in 1..(Len(s) - 1) |-> VSub(s[k + 1], s[1])]

\* s[1:] - s[:-1]
Diffs(s) == [k \in 1..(Len(s) - 1) |-> VSub(s[k + 1], s[k])]

\* gamma_block(A, n, a, cutoff): np.append(s[0], s[1:] - s[:-1])
GammaBlock(pp) == <<GammaStep(pp)[1]>> \o Diffs(GammaStep(pp))

\* names the response cell does not bind
notGamma == <<i, err, head, rain, genVars, idxVars, fam, taxis, stepnum,
              stepnum_brug, normalized, plotted>>

InitGamma ==
    /\ params \in GammaParamSets
    /\ tmax = Unbound
    /\ hwork = Unbound
    /\ step = Unbound
    /\ pc = "start"
    /\ i = 0
    /\ err = "none"
    /\ head = Unbound
    /\ rain = Unbound
    /\ fam = Unbound
    /\ taxis = Unbound
    /\ stepnum = Unbound
    /\ stepnum_brug = Unbound
    /\ normalized = Unbound
    /\ plotted = Unbound
    /\ UnboundGen
    /\ UnboundIdx

\* The response cell: h = gamma_block(Atrue, ntrue, atrue); tmax = gamma_tmax(...)
ResponseCell ==
    /\ pc = "start"
    /\ hwork' = GammaBlock(params)
    /\ tmax' = GammaTmax(params)
    /\ pc' = "response"
    /\ UNCHANGED <<params, step>>
    /\ UNCHANGED notGamma

\* First statement of the head generation cell: step = gamma_block(...)[1:]
BlockTail ==
    /\ pc = "response"
    /\ step' = Tail(GammaBlock(params))
    /\ pc' = "block"
    /\ UNCHANGED <<params, tmax, hwork>>
    /\ UNCHANGED notGamma

NextGamma == ResponseCell \/ BlockTail

SpecGamma == InitGamma /\ [][NextGamma]_vars

\* ------------------------------------------------------------------------
\* The exponentially correlated series (unnamed/part_000 91-102)
\*
\* The series is built at a reduced size: Lag stands for the 365 days of
\* draws ahead of the first day, the daily index has up to MaxDays days.  A
\* draw of np.random.rand is 0 or 1.
\* ------------------------------------------------------------------------
MaxDays == 3

Lag == 2

alpha_exp == 10

DrawVals == {Num(0), Num(1)}

\* n = np.random.rand(index.size + 365)
DrawSeqs(size) == SeqsOf(DrawVals, size + Lag)

\* b = np.exp(-np.arange(366) / alpha)
Kernel == [k \in 1..(Lag + 1) |-> Exp(Rat(k - 1, 1), Rat(alpha_exp, 1))]

\* sum of x[k] * b[m - k] over the k in from..to where both exist (0-based)
RECURSIVE ConvSum(_, _, _, _, _)
ConvSum(x, b, m, from, to) ==
    IF from > to THEN Zero
    ELSE VAdd(IF InRange(x, from) /\ InRange(b, m - from)
              THEN VMul(At(x, from), At(b, m - from))
              ELSE Zero,
              ConvSum(x, b, m, from + 1, to))

\* np.convolve(x, b, mode="full")
ConvolveFull(x, b) ==
    [m \in 1..(Len(x) + Len(b) - 1) |-> ConvSum(x, b, m - 1, 0, m - 1)]

\* faulty variant: the part mode="same" keeps
ModeSame(m, n) == <<(n - 1) \div 2 + 1, (n - 1) \div 2 + m>>

\* the part of the full convolution mode="valid" keeps, for m >= n entries:
\* the positions where the kernel overlaps the data completely
ModeValid(m, n) == <<n, m>>

\* np.convolve(x, b, mode="valid")
Convolve(x, b) ==
    SubSeq(ConvolveFull(x, b), ModeValid(Len(x), Len(b))[1],
           ModeValid(Len(x), Len(b))[2])

\* sum of the elements of a sequence of values
RECURSIVE Total(_)
Total(s) == IF s = <<>> THEN Zero ELSE VAdd(s[1], Total(Tail(s)))

\* n - n.mean()
Centered(s) ==
    [k \in 1..Len(s) |-> VSub(s[k], VMul(Total(s), VConst(Rat(1, Len(s)))))]

\* the namespace ns with name bound to val
Rebind(ns, name, val) == (name :> val) @@ ns

\* names the cell does not bind
notExp == <<i, err, head, step, stamps, genVars, stepVars, headVars>>

InitExp ==
    /\ \E size \in 1..MaxDays : built = [index |-> Daily(size)]
    /\ stamps = Unbound
    /\ pc = "start"
    /\ i = 0
    /\ err = "none"
    /\ head = Unbound
    /\ step = Unbound
    /\ UnboundGen
    /\ UnboundStep
    /\ UnboundHead

\* alpha = 10; n = np.random.rand(index.size + 365); b = np.exp(...)
DrawStep ==
    /\ pc = "start"
    /\ \E x \in DrawSeqs(Len(built.index)) :
         built' = Rebind(Rebind(built, "n", x), "b", Kernel)
    /\ pc' = "drawn"
    /\ UNCHANGED notExp

\* n = np.convolve(n, b, mode="valid")
ConvolveStep ==
    /\ pc = "drawn"
    /\ built' = Rebind(built, "n", Convolve(built.n, built.b))
    /\ pc' = "convolved"
    /\ UNCHANGED notExp

\* n = n - n.mean(); index = ...np.arange(0, n.size, 1)...; n = pd.Series(...)
SeriesStep ==
    /\ pc = "convolved"
    /\ built' = Rebind(Rebind(built, "n", Centered(built.n)),
                       "index", Daily(Len(built.n)))
    /\ pc' = "series"
    /\ UNCHANGED notExp

NextExp == DrawStep \/ ConvolveStep \/ SeriesStep

SpecExp == InitExp /\ [][NextExp]_vars

\* ------------------------------------------------------------------------
\* The loops of the noise-model notebooks taken together: a kernel runs
\* either the generator cells or the response-function check
\* ------------------------------------------------------------------------
InitLoops == Init \/ InitStep

NextLoops == Next \/ NextStep

SpecLoops == InitLoops /\ [][NextLoops]_vars

\* ------------------------------------------------------------------------
\* Properties
\* ------------------------------------------------------------------------
\* elements of the output array the loop has already written
Written == 1..(i - 1)

UnitSteps == \A k \in 1..Len(delt) : delt[k] = 1

\* C1: in the regular AR(1) cell and in the synthetic-data cell every written
\* element with index k >= 1 equals noise[k] + c * r[k-1], where c is alpha in
\* the AR(1) cell and exp(-1/alphatrue) in the synthetic-data cell.
C1_RegularRecursion ==
    gen \in {"AR1", "Corr"} =>
        \A k \in Written :
            At(residuals, k) =
                VAdd(At(noise, k),
                     VMul(IF gen = "AR1" THEN VConst(alpha) ELSE Exp(ROne, alpha),
                          At(residuals, k - 1)))

C1_Witness ==
    /\ gen \in {"AR1", "Corr"}
    /\ pc = "done"
    /\ Len(noise) >= 3
    /\ alpha # RZero
    /\ At(residuals, 1) # Zero
    /\ At(residuals, 1) # At(noise, 1)
    /\ At(residuals, 2) # At(noise, 2)

\* C2: in every generator the first output element is the first base noise
\* draw, r[0] = noise[0].
C2_FirstFromNoise ==
    pc = "done" => At(residuals, 0) = At(noise, 0)

\* C3: the regular AR(1) recursion on base noise [1, 0, 0, 0] with alpha = 0.5
\* yields [1, 0.5, 0.25, 0.125].
C3_Scenario ==
    (/\ gen = "AR1"
     /\ pc = "done"
     /\ noise = <<Num(1), Num(0), Num(0), Num(0)>>
     /\ alpha = Rat(1, 2))
    => residuals = <<Num(1), VConst(Rat(1, 2)), VConst(Rat(1, 4)), VConst(Rat(1, 8))>>

\* C4: with alpha = 0 the AR(1) generator returns the base noise unchanged,
\* r[k] = noise[k] for every index.
C4_AlphaZeroWhiteNoise ==
    (gen = "AR1" /\ alpha = RZero /\ pc = "done") => residuals = noise

\* C5 (as stated): with all time steps equal to 1 the time-step recursion
\* gives, at every index, the output of the fixed-alpha recursion
\* r[k] = noise[k] + alpha*r[k-1] started from the same first element, for
\* the same base noise and the same alpha.
C5_SameAlpha ==
    (gen = "Irr" /\ pc = "done" /\ UnitSteps)
    => residuals = LoopFrom("AR1", SeedFirst("Irr", ZerosLike(noise), noise),
                            noise, delt, alpha, beta, 1)

\* C5 (amended): with all time steps equal to 1 and alpha > 0 the time-step
\* recursion gives, at every index, the output of the fixed-coefficient
\* recursion of the synthetic-data cell run with alphatrue = alpha, whose
\* coefficient is exp(-1/alpha) and whose first element is noise[0].
C5_UnitStepsAsFixedDecay ==
    (gen = "Irr" /\ pc = "done" /\ UnitSteps /\ alpha # RZero)
    => residuals = Generate("Corr", noise, <<>>, alpha, beta)

C5_Witness ==
    /\ gen = "Irr"
    /\ pc = "done"
    /\ UnitSteps
    /\ alpha # RZero
    /\ Len(noise) >= 3
    /\ At(residuals, 2) # At(noise, 2)

\* C6: with beta = 0 the ARMA(1,1) cell produces at every index the output
\* of the regular AR(1) cell for the same base noise and alpha.
C6_BetaZeroIsAR1 ==
    (gen = "ARMA" /\ pc = "done" /\ beta = RZero)
    => residuals = Generate("AR1", noise, delt, alpha, RZero)

C6_Witness ==
    /\ gen = "ARMA"
    /\ pc = "done"
    /\ beta = RZero
    /\ alpha # RZero
    /\ Len(noise) >= 3
    /\ At(noise, 0) # Zero
    /\ At(residuals, 2) # At(noise, 2)

\* C7: in the ARMA(1,1) cell every written element with index k >= 1 equals
\* noise[k] + beta*noise[k-1] + alpha*a[k-1]; the moving-average term is the
\* previous base noise draw, not the previous output.
C7_ArmaRecursion ==
    gen = "ARMA" =>
        \A k \in Written :
            At(residuals, k) =
                VAdd(VAdd(At(noise, k), VMul(VConst(beta), At(noise, k - 1))),
                     VMul(VConst(alpha), At(residuals, k - 1)))

C7_Witness ==
    /\ gen = "ARMA"
    /\ pc = "done"
    /\ beta # RZero
    /\ alpha # RZero
    /\ Len(noise) >= 3
    /\ At(residuals, 1) # At(noise, 1)

\* C8: in the irregular-step cell the decay factor of element k >= 1 is
\* exp(-(index[k] - index[k-1]) / alpha), the time elapsed since the previous
\* observation, and the position read in the step-size array is always inside
\* the array.
C8_ElapsedTimeDecay ==
    gen = "Irr" =>
        /\ \A k \in Written :
               At(residuals, k) =
                   VAdd(At(noise, k),
                        VMul(Exp(Rat(At(index, k) - At(index, k - 1), 1), alpha),
                             At(residuals, k - 1)))
        /\ (pc = "loop" /\ i < LoopEnd(gen, residuals, noise, index))
               => InRange(delt, DeltIdx(i))
        /\ err # "IndexError"

C8_Witness ==
    /\ gen = "Irr"
    /\ pc = "done"
    /\ alpha # RZero
    /\ Len(noise) >= 3
    /\ At(delt, 0) # At(delt, 1)
    /\ At(residuals, 1) # Zero
    /\ At(residuals, 2) # At(noise, 2)

\* C9: every generator outputs one value per input time step: the output
\* array, the base noise and the head series have the same length, and the
\* sum of head and noise is formed without a length mismatch.
C9_OneValuePerStep ==
    /\ pc \in {"loop", "done"} => Len(residuals) = Len(noise)
    /\ pc = "done" =>
           /\ Len(residuals) = Len(head)
           /\ Len(head_noise) = Len(index)
    /\ err # "ValueError"

C9_Witness ==
    /\ pc = "done"
    /\ Len(noise) = MaxLen
    /\ Len(head_noise) = MaxLen
    /\ \E k \in 1..MaxLen : head_noise[k] # head[k]

\* C10: a run of the cell with the same base noise and the same parameters
\* as an earlier completed run produces the same output, whatever the state
\* of the global random generator and whatever ran in between.
C10_Deterministic ==
    (/\ pc = "done"
     /\ prev.run
     /\ prev.alpha = alpha
     /\ prev.beta = beta)
    => prev.out = residuals

C10_Witness ==
    /\ pc = "done"
    /\ prev.run
    /\ prev.alpha = alpha
    /\ prev.beta = beta
    /\ prev.rng # rng
    /\ Len(noise) >= 3
    /\ At(residuals, 2) # At(noise, 2)

C12_EqualDomain ==
    pc = "plotted" =>
        /\ plotted.xa = plotted.xn
        /\ Len(plotted.ya) = Len(plotted.yn)

\* C12 (amended): the numerical sequence has one entry for every time point
\* of t, the analytic sequence one entry for every time point of t[1:]; the
\* two domains agree on the times 1..len(t)-1 and the numerical sequence has
\* one more entry, at t = 0.
C12_DomainsUpToOrigin ==
    pc = "plotted" =>
        /\ err = "none"
        /\ Len(plotted.yn) = Len(plotted.xn)
        /\ Len(plotted.ya) = Len(plotted.xa)
        /\ Len(plotted.xn) = Len(plotted.xa) + 1
        /\ At(plotted.xn, 0) = 0
        /\ \A k \in 1..Len(plotted.xa) : plotted.xa[k] = plotted.xn[k + 1]

C12_Witness ==
    /\ pc = "plotted"
    /\ Len(plotted.xa) >= 2
    /\ plotted.ya[2] # Zero

\* C13: the numerical step sequence is divided by the integral over
\* [0, infinity) for exactly the families marked as implemented for unit gain
\* only.
C13_RescaledIffMarked ==
    pc \in {"computed", "plotted"} =>
        (normalized <=> Families[fam] \in MarkedUnitGain)

\* C15: deriving a signal does not change its inputs: no step of a noise
\* generator cell changes the base noise or the head series, and adding the
\* correlated noise to the head leaves the correlated noise unchanged.
C15_InputsKept ==
    [][/\ noise' = noise
       /\ head' = head
       /\ (pc = "loop" /\ pc' = "done") => residuals' = residuals]_vars

C15_Witness ==
    /\ gen = "Corr"
    /\ pc = "done"
    /\ head_test1 # Unbound
    /\ head_test1 # head
    /\ head_noise # head
    /\ head_noise # head_test1
    /\ residuals # noise

\* a sequence of timestamps in time order
Ordered(s) == \A k \in 1..(Len(s) - 1) : s[k] <= s[k + 1]

StrictlyIncreasing(s) == \A k \in 1..(Len(s) - 1) : s[k] < s[k + 1]

\* the indices that are built from the csv timestamps
FromStamps == {"index_test", "index"}

\* the names that hold a time index
IndexNames == {"index_test", "index", "v", "v1", "v2"}

\* C16: every index built in the notebooks is strictly increasing (so it has
\* no duplicate timestamp), the ones read from the csv file provided its
\* timestamps are in time order.
C16_StrictlyIncreasing ==
    \A k \in DOMAIN built \cap IndexNames :
        (k \in FromStamps => Ordered(stamps)) => StrictlyIncreasing(built[k])

C16_Witness ==
    /\ {"index_test", "v", "v1", "v2"} \subseteq DOMAIN built
    /\ Ordered(stamps)
    /\ Len(stamps) = MaxStamps
    /\ Len(built["index_test"]) = 2
    /\ Len(built["v1"]) > 3 * DaysPerYear

\* the days of a built index that fall in years from..(to - 1) of the series
DaysIn(s, from, to) ==
    {s[k] : k \in {j \in 1..Len(s) : /\ s[j] >= from * DaysPerYear
                                     /\ s[j] < to * DaysPerYear}}

\* every f-th day of years from..(to - 1), counted from the first of them
EveryNth(from, to, f) ==
    {dd \in (from * DaysPerYear)..(to * DaysPerYear - 1) :
        (dd - from * DaysPerYear) % f = 0}

\* C17: Irregular Time Series 2 is 3 years sampled every 30 days, then 3 years
\* sampled every 14 days, then a one-year gap without samples, then 4 years
\* of daily samples.
C17_ThreeThreeGapFour ==
    "v2" \in DOMAIN built =>
        /\ DaysIn(built["v2"], 0, 3) = EveryNth(0, 3, 30)
        /\ DaysIn(built["v2"], 3, 6) = EveryNth(3, 6, 14)
        /\ DaysIn(built["v2"], 6, 7) = {}
        /\ Cardinality(DaysIn(built["v2"], 7, n_years)) = 4 * DaysPerYear

\* sum of rain[k] * step[j - k] over the days k in from..j
RECURSIVE Superposed(_, _, _, _)
Superposed(rn, st, from, j) ==
    IF from > j THEN 0
    ELSE At(rn, from) * At(st, j - from) + Superposed(rn, st, from + 1, j)

\* the causal discrete convolution of rainfall and block response at day j
Convolved(rn, st, j) ==
    dtrue + Superposed(rn, st, IF j - Len(st) + 1 > 0 THEN j - Len(st) + 1 ELSE 0, j)

\* C18: the head built by the superposition loop is the causal discrete
\* convolution of rainfall with the block response: for every day j of the
\* rainfall series, head[j] = d + sum of rain[k] * step[j - k] over the days
\* k from max(0, j - lenstep + 1) to j (day j itself included, no later day).
C18_HeadIsConvolution ==
    pc = "done" =>
        /\ \A j \in 0..(Len(rain) - 1) : At(hwork, j) = Convolved(rain, step, j)
        /\ \A k \in 1..Len(head) : head[k][2] = Convolved(rain, step, head[k][1])

C18_Witness ==
    /\ pc = "done"
    /\ Len(rain) = MaxRain
    /\ Len(step) = 2
    /\ step[1] # step[2]
    /\ \A k \in 1..Len(rain) : rain[k] > 0
    /\ rain[1] # rain[2]
    /\ Len(head) = Len(rain)

\* arr with every element but the one at index k replaced by another value
KeepOnly(arr, k) ==
    [j \in 1..Len(arr) |-> IF j = k + 1 THEN arr[j] ELSE VAdd(arr[j], Num(1))]

\* arr2 is arr with at most the element at index k changed
WrittenAt(arr, arr2, k) ==
    /\ Len(arr2) = Len(arr)
    /\ InRange(arr, k)
    /\ \A j \in 1..Len(arr) : j # k + 1 => arr2[j] = arr[j]

\* C21: each generator loop and the integrator loop is a single forward
\* pass: it starts at index 1, every iteration writes the index i only and
\* moves on to i + 1, the value written depends on no element of the output
\* but the one at i - 1, and the loop ends at i = n, after n - 1 iterations.
C21_SingleForwardPass ==
    [][/\ (pc # "loop" /\ pc' = "loop") => i' = 1
       /\ (pc = "loop" /\ pc' = "loop") =>
            /\ i' = i + 1
            /\ WrittenAt(residuals, residuals', i)
            /\ At(residuals', i)
                 = Body(gen, KeepOnly(residuals, i - 1), noise, delt, alpha, beta, i)
       /\ (pc = "loop" /\ pc' = "done") => i = Len(noise) /\ i = Len(residuals)
       /\ (pc # "quad" /\ pc' = "quad") => i' = 1
       /\ (pc = "quad" /\ pc' = "quad") =>
            /\ i' = i + 1
            /\ WrittenAt(Numerical, Numerical', i)
       /\ (pc = "quad" /\ pc' = "computed") => i = Len(taxis) /\ i = Len(Numerical)
      ]_vars

C21_Witness ==
    /\ gen = "ARMA"
    /\ pc = "done"
    /\ i = MaxLen
    /\ Len(noise) = MaxLen
    /\ \A k \in 1..(MaxLen - 1) : At(residuals, k) # Zero

\* C22: the integrator handles t = 0 without quadrature: the entry for t = 0
\* stays at its initial 0 for every family, and every quadrature call of the
\* loop has an upper limit t >= 1, so none is on the window [0, 0].
C22_NoQuadAtOrigin ==
    [][/\ (pc = "quad" /\ pc' = "quad") =>
            /\ Window(taxis, i)[2] >= 1
            /\ Window(taxis, i)[1] < Window(taxis, i)[2]
            /\ i >= 1
       /\ pc' \in {"quad", "computed", "plotted"} =>
            /\ At(taxis', 0) = 0
            /\ At(Numerical', 0) = Zero
      ]_vars

C22_Witness ==
    /\ fam \in 1..Len(Families)
    /\ Families[fam] = "Hantush"
    /\ pc = "computed"
    /\ Len(taxis) = MaxT
    /\ At(Numerical, 0) = Zero
    /\ \A k \in 1..(Len(taxis) - 1) : At(Numerical, k) # Zero

\* C23: no error is caught or recovered.  A generator step that raises ends
\* the loop with that exception: the output array is left as it is, so the
\* indices from i on keep their initial 0, no later step of the loop runs and
\* no noisy head is made; the cell can only be run again or the kernel
\* restarted.  An integrator step stores the quadrature result whatever
\* error estimate came with it.
C23_ErrorsPropagate ==
    [][/\ (pc = "loop" /\ i < LoopEnd(gen, residuals, noise, index)
             /\ Raises(gen, alpha, delt, i) # "none") =>
            /\ pc' = "error"
            /\ err' = Raises(gen, alpha, delt, i)
            /\ residuals' = residuals
            /\ head_noise' = head_noise
            /\ \A k \in i..(Len(residuals) - 1) : At(residuals', k) = Zero
       /\ pc = "error" =>
            \/ pc' = "error" /\ residuals' = residuals /\ head_noise' = head_noise
            \/ pc' = "loop" /\ i' = 1
            \/ pc' = "idle"
       /\ (pc = "quad" /\ pc' = "quad") =>
            At(Numerical', i) = Quad(Families[fam], params, 0, At(taxis, i))
      ]_vars

C23_Witness ==
    /\ gen = "Corr"
    /\ pc = "error"
    /\ err = "ZeroDivisionError"
    /\ Len(residuals) = MaxLen
    /\ i = 1
    /\ \A k \in 0..(MaxLen - 1) : At(noise, k) # Zero
    /\ At(residuals, 0) = At(noise, 0)
    /\ \A k \in 1..(MaxLen - 1) : At(residuals, k) = Zero

\* the numerical step sequence of family f for parameters pp on the axis tt
ExpectedNumerical(f, pp, tt) ==
    LET raw == [k \in 1..Len(tt) |-> Quad(f, pp, 0, tt[k])]
    IN  IF f \in Rescaled THEN DivideAll(raw, QuadInf(f, pp)) ELSE raw

\* C24: run top to bottom, every comparison cell plots the time axis, the
\* analytic and the numerical sequence that the compute cell just before it
\* made for its own family, with that family's parameters and tmax.
C24_PlotsOwnFamily ==
    pc = "plotted" =>
        /\ plotted.fam = fam
        /\ params \in ParamSets(Families[fam])
        /\ plotted.xn = Arange(tmax)
        /\ plotted.xa = AnalyticAxis(Arange(tmax))
        /\ plotted.ya = StepAnalytic(Families[fam], params, Arange(tmax))
        /\ plotted.yn = ExpectedNumerical(Families[fam], params, Arange(tmax))

C24_Witness ==
    /\ pc = "plotted"
    /\ fam = Len(Families)
    /\ Len(plotted.yn) = MaxT
    /\ Len(stepnum) < MaxT
    /\ stepnum # Unbound
    /\ plotted.yn # stepnum

\* sum of the first k elements of a sequence of values
RECURSIVE CumSum(_, _)
CumSum(s, k) == IF k = 0 THEN Zero ELSE VAdd(CumSum(s, k - 1), s[k])

\* C25: gamma_block and gamma_step are a round trip: the block response has
\* the length of the step response, starts with the step response's first
\* element, and its cumulative sum up to any index is the step response
\* there.
C25_BlockSumsToStep ==
    pc \in {"response", "block"} =>
        /\ Len(hwork) = Len(GammaStep(params))
        /\ hwork[1] = GammaStep(params)[1]
        /\ \A k \in 1..Len(hwork) : CumSum(hwork, k) = GammaStep(params)[k]

C25_Witness ==
    /\ pc = "response"
    /\ params.n = 2
    /\ params.A = 5
    /\ Len(hwork) >= 4
    /\ hwork[2] # Zero
    /\ hwork[3] # hwork[2]

NoiseAR1(r, phi, k) == VSub(At(r, k), VMul(VConst(phi), At(r, k - 1)))

\* the ARMA(1,1) noise-model formula, started with v[0] = v0:
\* v[k] = a[k] - al * a[k - 1] - be * v[k - 1]
RECURSIVE NoiseARMA(_, _, _, _, _)
NoiseARMA(a, v0, al, be, k) ==
    IF k = 0 THEN v0
    ELSE VSub(VSub(At(a, k), VMul(VConst(al), At(a, k - 1))),
              VMul(VConst(be), NoiseARMA(a, v0, al, be, k - 1)))

\* C27: the noise-model formulas invert the generators: from the AR(1)
\* output r, r[k] - alpha * r[k - 1] is noise[k] for every k >= 1, and from
\* the ARMA(1,1) output a, a[k] - alpha * a[k - 1] - beta * v[k - 1] with
\* v[0] = noise[0] is noise[k] for every k >= 1.
C27_NoiseModelInverts ==
    pc = "done" =>
        /\ gen = "AR1" =>
             \A k \in 1..(Len(residuals) - 1) :
                 NoiseAR1(residuals, alpha, k) = At(noise, k)
        /\ gen = "ARMA" =>
             \A k \in 1..(Len(residuals) - 1) :
                 NoiseARMA(residuals, At(noise, 0), alpha, beta, k) = At(noise, k)

C27_Witness ==
    /\ pc = "done"
    /\ gen = "ARMA"
    /\ alpha # RZero
    /\ beta # RZero
    /\ Len(residuals) = MaxLen
    /\ \A k \in 0..(MaxLen - 1) : At(noise, k) # Zero
    /\ At(residuals, MaxLen - 1) # At(noise, MaxLen - 1)

\* the kernel-weighted sum of the Lag + 1 draws up to draw m:
\* sum of exp(-k / alpha) * x[m - k] over k = 0..Lag
RECURSIVE WeightedSum(_, _, _)
WeightedSum(x, m, k) ==
    IF k > Lag THEN Zero
    ELSE VAdd(VMul(Exp(Rat(k, 1), Rat(alpha_exp, 1)), At(x, m - k)),
              WeightedSum(x, m, k + 1))

\* C28: the convolution in "valid" mode of index.size + 365 draws with the
\* 366-tap kernel has one value per day of the index, the value of day j
\* being the kernel-weighted sum of the 366 draws up to draw j + 365; the
\* series made of it keeps one value per day.
C28_OneValuePerDay ==
    [][/\ (pc = "drawn" /\ pc' = "convolved") =>
            /\ Len(built.n) = Len(built.index) + Lag
            /\ Len(built.b) = Lag + 1
            /\ Len(built'.n) = Len(built.index)
            /\ \A j \in 0..(Len(built.index) - 1) :
                 At(built'.n, j) = WeightedSum(built.n, j + Lag, 0)
       /\ pc' = "series" =>
            /\ Len(built'.n) = Len(built'.index)
            /\ built'.index = built.index
      ]_vars

C28_Witness ==
    /\ pc = "convolved"
    /\ Len(built.n) = MaxDays
    /\ Len(built.index) = MaxDays
    /\ built.n[1] # Zero
    /\ built.n[1] # built.n[2]
    /\ built.n[2] # built.n[3]

\* the irregular series, each with its target index and its daily series
Irregular ==
    (IF "v" \in DOMAIN built
     THEN {[s |-> built.v3, target |-> built.index_test, daily |-> SineDaily],
           [s |-> built.n1, target |-> built.v1, daily |-> ExpDaily],
           [s |-> built.n2, target |-> built.v2, daily |-> ExpDaily],
           [s |-> built.n3, target |-> built.index_test, daily |-> ExpDaily]}
     ELSE {})
    \cup
    (IF "head_irregular" \in DOMAIN built
     THEN {[s |-> built.head_irregular, target |-> built.index,
            daily |-> built.head_noise]}
     ELSE {})

\* the days a sequence of days or of rows holds
DaysOf(idx) == {idx[k] : k \in 1..Len(idx)}

RowDays(s) == {s[k][1] : k \in 1..Len(s)}

\* C29: every irregular series is a pure subsample of its daily series:
\* every timestamp it keeps is in the target index and in the daily series,
\* and its value there is the daily series' value at that timestamp.
C29_PureSubsample ==
    \A r \in Irregular :
        /\ RowDays(r.s) \subseteq DaysOf(r.target)
        /\ RowDays(r.s) \subseteq RowDays(r.daily)
        /\ \A k \in 1..Len(r.s) :
             /\ r.s[k][2] = ValueOn(r.daily, r.s[k][1])
             /\ r.s[k][2] # NaN

====
